---- MODULE Spec2Model ----
(***************************************************************************)
(* Model of the Rick and Morty ingestion client (src/src/ingestion.py):    *)
(* the tenacity-wrapped page fetch, the pagination loop, ingest_entity     *)
(* with its snapshot store, and run_ingestion.                             *)
(*                                                                         *)
(* One process, run to completion.  pc is its position:                    *)
(*   idle      no call in progress                                         *)
(*   fetch     inside fetch_all_pages, about to issue attempt              *)
(*             attempt_number of _fetch_page(current_url)                  *)
(*   cleanup   fetch_all_pages returned, about to call cleanup_old_files   *)
(*   write     about to call save_json_to_file                             *)
(*   summary   about to call print_summary and return                      *)
(*   returned  ingest_entity returned records to its caller                *)
(*   raised    ingest_entity raised APIIngestionError to its caller        *)
(***************************************************************************)
EXTENDS Integers, Sequences, FiniteSets, TLC

\* ------------------------------------------------------------------ bounds
\* Longest chain of pages a resource is published as, and the cap on the
\* code's unbounded page_number when the chain loops.
MaxPages == 2
\* Number of top-level calls (run_ingestion or a direct ingest_entity) explored.
MaxRuns == 2
\* Largest max_retries argument given to a directly constructed client.
MaxClientRetries == 2
\* Ranges of the two environment-configured values explored by SpecEnv.
MaxEnvRetries == 6
MaxEnvBackoff == 4
\* Number of earlier timestamps a directory may hold files of when SpecStore
\* starts, and the largest keep_latest given to cleanup_old_files.
MaxOld == 3
\* Longest script, in tokens, given to execute_script.
MaxScript == 5
\* Longest list of check rows given to analyze_results.
MaxChecks == 3

\* ------------------------------------------------------- program constants
\* config.py: API_MAX_RETRIES / API_RETRY_BACKOFF defaults.
DEFAULT_API_MAX_RETRIES == 5
DEFAULT_API_RETRY_BACKOFF == 2
\* ingestion.py: wait_exponential(multiplier=API_RETRY_BACKOFF, min=1, max=30)
WAIT_MIN == 1
WAIT_MAX == 30
\* tenacity's wait_exponential default exp_base
EXP_BASE == 2
\* ingestion.py: cleanup_old_files(..., keep_latest=0) in ingest_entity
KEEP_LATEST == 0
\* main.py: the values main returns
EXIT_OK == 0
EXIT_FAILURE == 1
EXIT_INTERRUPTED == 130

Entities == {"characters", "episodes"}

\* A URL is <<resource, page id>>; NoURL is an absent / null info.next.
NoURL == <<"none", 0>>

\* config.py: CHARACTERS_ENDPOINT / EPISODES_ENDPOINT
ENDPOINT(e) == <<e, 1>>

NoError == [type |-> "none", cause |-> "none"]

VARIABLES
    API_MAX_RETRIES,    \* config.API_MAX_RETRIES (read once from the environment)
    API_RETRY_BACKOFF,  \* config.API_RETRY_BACKOFF
    mock_session,       \* client.session is replaced by a mock that records its calls
    server,             \* the API: resource -> [len: its number of pages, loops: whether
                        \* the last page's info.next leads back to the first]
    pc,
    driver,             \* "none" | "run_ingestion" | "direct"
    runs,               \* top-level calls started so far
    max_retries,        \* client.max_retries
    session_open,       \* client.session not yet closed
    entity_name, endpoint, save_to_file,   \* ingest_entity's arguments
    current_url, all_results, page_number, \* fetch_all_pages' locals
    attempt_number,     \* tenacity retry_state.attempt_number of the current _fetch_page call
    records,            \* what fetch_all_pages returned
    elapsed_time,       \* time.time() - start_time; 0 stands for 0.0, 1 for any positive value
    raised,             \* the exception ingest_entity raised (type and innermost cause)
    files,              \* the snapshot directories: entity -> set of files
    clock,              \* wall clock, one tick per ingest_entity call
    last_ok,            \* entity -> clock of its latest saving call if that call returned,
                        \* 0 if it did not return or none was made
    prev_ok,            \* log: last_ok of the entity when the current call began
    last_saved,         \* log: entity -> clock of its latest saving call that returned
    attempts,           \* log: GETs of the latest _fetch_page call, <<[url, outcome]>>
    sleeps,             \* log: backoff delays slept in the latest _fetch_page call
    path,               \* log: URLs fetched successfully by the current fetch_all_pages
    naps,               \* log: number of 100ms courtesy sleeps of the current fetch_all_pages
    calls,              \* log: the GETs since fetch_all_pages was entered as a mock
                        \* session records them, <<[url, ok]>> (<<>> without a mock)
    deleted, undeleted, \* log: files the latest cleanup unlinked / failed to unlink
    before,             \* log: the directory as the latest cleanup_old_files found it
    keep_latest_arg,    \* log: the keep_latest argument of the latest cleanup_old_files
    \* main.py
    step,               \* args.step
    mpc,                \* main's position: "start" | "stages" | "finally" | "returned"
    stage,              \* index of the stage whose if statement is next
    dal,                \* main's dal: "None" | "created"
    connection,         \* dal._connection: "none" | "open" | "closed"
    started, completed, \* log: the stages started / completed, in order
    caught,             \* the exception main's except clauses caught, "none" if none
    close_call,         \* log: main's dal.close(): "none" | "returned" | "raised"
    status,             \* main's return value: {} until a return statement is reached
    \* snowflake_dal.py: execute_script
    sql_script,         \* the argument: a sequence of tokens
    statements,         \* the local list of cleaned statements
    spc,                \* position: "start" | "loop" | "returned" | "raised"
    cursor,             \* "none" | "open" | "closed"
    executed,           \* log: the statements handed to cursor.execute, in order
    failed_at,          \* log: the number of the statement whose execute raised, 0 if none
    script_error,       \* the exception execute_script let out, "none" if none
    \* quality_checks.py: analyze_results
    checks,             \* the argument: a sequence of rows
    qpc,                \* position: "idle" | "loop" | "returned"
    qi,                 \* index of the row the loop is at
    passed, failed, warnings,   \* the three local lists
    analysis,           \* the dictionary returned, NoAnalysis before
    \* main.py: run_quality_checks_step, quality_checks.py: run_quality_checks
    dal_kind,           \* the object passed as dal: "SnowflakeDAL" or "double", a
                        \* stand-in that answers execute_queries_from_file
    results_by_query,   \* what dal.execute_queries_from_file returned
    stpc,               \* position: "start" | "analyze" | "check" | "returned" | "raised"
    step_error,         \* the exception run_quality_checks_step let out, "none" if none
    \* raw_loader.py: load_raw_entity
    lpc,                \* "idle" | "returned" | "raised": how the latest call ended
    load_entity,        \* the entity_name argument
    latest_file,        \* files[0] of the sorted glob, as a set: {} before it is taken
    uploaded, copied,   \* log: the files handed to upload_file_to_stage and the files
                        \* named to copy_into_from_stage by the current call, in order
    load_error          \* the exception load_raw_entity let out, "none" if none

vars == <<API_MAX_RETRIES, API_RETRY_BACKOFF, mock_session, server, pc, driver, runs, max_retries,
          session_open, entity_name, endpoint, save_to_file, current_url,
          all_results, page_number, attempt_number, records, elapsed_time,
          raised, files, clock, last_ok, prev_ok, last_saved, attempts, sleeps, path,
          naps,
          calls, deleted, undeleted, before, keep_latest_arg,
          step, mpc, stage, dal, connection, started, completed, caught,
          close_call, status,
          sql_script, statements, spc, cursor, executed, failed_at,
          script_error,
          checks, qpc, qi, passed, failed, warnings, analysis,
          dal_kind, results_by_query, stpc, step_error,
          lpc, load_entity, latest_file, uploaded, copied, load_error>>

\* The state of the ingestion client and its snapshot store.
ingestionVars ==
    <<API_MAX_RETRIES, API_RETRY_BACKOFF, mock_session, server, pc, driver, runs,
      max_retries,
      session_open, entity_name, endpoint, save_to_file, current_url,
      all_results, page_number, attempt_number, records, elapsed_time,
      raised, files, clock, last_ok, prev_ok, last_saved, attempts, sleeps, path,
          naps,
      calls, deleted, undeleted, before, keep_latest_arg>>
mainVars ==
    <<step, mpc, stage, dal, connection, started, completed, caught,
      close_call, status>>
\* The state of the components an ingestion step leaves alone.
scriptVars ==
    <<sql_script, statements, spc, cursor, executed, failed_at, script_error>>
qualityVars == <<checks, qpc, qi, passed, failed, warnings, analysis>>
stageVars == <<dal_kind, results_by_query, stpc, step_error>>
loaderVars == <<lpc, load_entity, latest_file, uploaded, copied, load_error>>
elsewhere == <<mainVars, scriptVars, qualityVars, stageVars, loaderVars>>

config == <<API_MAX_RETRIES, API_RETRY_BACKOFF, mock_session, server>>
client == <<max_retries, session_open>>
callArgs == <<entity_name, endpoint, save_to_file>>
fetchVars == <<current_url, all_results, page_number, attempt_number,
               attempts, sleeps, path, naps, calls>>
storeVars == <<files, deleted, undeleted, before, keep_latest_arg>>

\* ----------------------------------------------------------------- helpers
Max(a, b) == IF a >= b THEN a ELSE b
Min(a, b) == IF a <= b THEN a ELSE b

RECURSIVE Pow(_, _)
Pow(b, n) == IF n = 0 THEN 1 ELSE b * Pow(b, n - 1)

Last(s) == s[Len(s)]

\* ------------------------------------------------------------ the HTTP API
\* The body's 'results' of the page at url: page 1 holds two records, page 3
\* none, every other page one; a record is its integer id, distinct per page.
results(url) ==
    LET i == url[2]
    IN  IF i = 1 THEN <<10 * i + 1, 10 * i + 2>>
        ELSE IF i = 3 THEN <<>>
        ELSE <<10 * i + 1>>

\* The body's info.next of the page at url: the next page of the resource;
\* on its last page absent/null, or the first page again when the chain loops.
next_link(url) ==
    LET e == url[1]
        i == url[2]
    IN  IF i < server[e].len THEN <<e, i + 1>>
        ELSE IF server[e].loops THEN <<e, 1>>
        ELSE NoURL

Servers == [Entities -> [len : 1..MaxPages, loops : BOOLEAN]]

RECURSIVE Concat(_)
Concat(urls) ==
    IF urls = <<>> THEN <<>> ELSE results(urls[1]) \o Concat(Tail(urls))


\* No call is in progress: nothing was called yet, run_ingestion has exited, or
\* a direct ingest_entity call has handed its result or exception to its caller.
Idle ==
    \/ pc = "idle"
    \/ (driver = "direct" /\ pc \in {"returned", "raised", "cleaned"})

\* ------------------------------------------------ _fetch_page and tenacity
\* One GET comes to "ok" (a 2xx with a decodable body), "5xx", "4xx",
\* "ConnectionError", "Timeout" or "JSONDecodeError" (a body that does not decode).
\* Variant: the status code is not looked at, every HTTPError is re-raised.
body_exception_any_status(outcome) ==
    CASE outcome = "ok" -> "none"
      [] outcome \in {"5xx", "4xx"} -> "HTTPError"
      [] outcome \in {"ConnectionError", "Timeout", "JSONDecodeError"} ->
             "APIIngestionError"

\* The exception that leaves the body of _fetch_page for each outcome of the
\* GET, after its two except clauses ("none": the body returns the JSON).
\* requests' ConnectionError, Timeout and JSONDecodeError are RequestExceptions.
body_exception(outcome) ==
    CASE outcome = "ok" -> "none"
      [] outcome = "5xx" -> "HTTPError"
      [] outcome = "4xx" -> "APIIngestionError"
      [] outcome \in {"ConnectionError", "Timeout", "JSONDecodeError"} ->
             "APIIngestionError"

\* retry=retry_if_exception_type((ConnectionError, Timeout, HTTPError))
retry_if_exception_type(exc) ==
    exc \in {"ConnectionError", "Timeout", "HTTPError"}

\* Variant: one attempt too many.
stop_after_attempt_late(attempt) == attempt >= API_MAX_RETRIES + 1

\* stop=stop_after_attempt(API_MAX_RETRIES): the decorator is evaluated when the
\* class is defined and reads the module constant, whatever the client holds.
stop_after_attempt(attempt) == attempt >= API_MAX_RETRIES

\* Variant: the exponent counts from the attempt number, not from zero.
wait_exponential_from_one(attempt) ==
    LET exp == Pow(EXP_BASE, attempt)
        result == API_RETRY_BACKOFF * exp
    IN  Max(Max(0, WAIT_MIN), Min(result, WAIT_MAX))

\* wait=wait_exponential(multiplier=API_RETRY_BACKOFF, min=1, max=30), as
\* tenacity computes it from the number of the attempt that just failed.
wait_exponential(attempt) ==
    LET exp == Pow(EXP_BASE, attempt - 1)
        result == API_RETRY_BACKOFF * exp
    IN  Max(Max(0, WAIT_MIN), Min(result, WAIT_MAX))

\* Variant: the new page is put in front of the earlier ones.
extend_in_front(list, more) == more \o list

\* all_results.extend(results)
extend(list, more) == list \o more

\* Variant: the error is let through as it is, not wrapped.
ingestion_error_unwrapped(cause) == [type |-> cause, cause |-> cause]

\* fetch_all_pages' and ingest_entity's "except Exception" clauses both wrap
\* whatever reaches them in APIIngestionError; cause is the innermost error.
ingestion_error(cause) == [type |-> "APIIngestionError", cause |-> cause]

\* Variant: the except clause of fetch_all_pages leaves the loop and the pages
\* fetched so far are returned.
pagination_failed_returns(cause) ==
    [pc |-> IF save_to_file THEN "cleanup" ELSE "summary", raised |-> NoError,
     records |-> all_results]

\* What ingest_entity comes to when _fetch_page lets an exception out: the
\* except clause of fetch_all_pages raises, nothing is returned, and the except
\* clause of ingest_entity raises in turn.
pagination_failed(cause) ==
    [pc |-> "raised", raised |-> ingestion_error(cause), records |-> records]

\* self.session.get(url, timeout=self.timeout): one more call on the session,
\* which a mock session records with the answer it gave.
get(log, url, outcome) ==
    IF mock_session THEN Append(log, [url |-> url, ok |-> (outcome = "ok")]) ELSE log

\* The logs of the _fetch_page call in progress (a new call starts them afresh).
CallLog == IF attempt_number = 1 THEN <<>> ELSE attempts
CallSleeps == IF attempt_number = 1 THEN <<>> ELSE sleeps

\* ingest_entity(endpoint, entity_name, save_to_file) up to the first GET:
\* start_time is read and fetch_all_pages initialises its locals.
BeginIngest(e, s) ==
    /\ entity_name' = e
    /\ endpoint' = ENDPOINT(e)
    /\ save_to_file' = s
    /\ clock' = clock + 1
    /\ all_results' = <<>>
    /\ current_url' = ENDPOINT(e)
    /\ page_number' = 1
    /\ attempt_number' = 1
    /\ attempts' = <<>>
    /\ sleeps' = <<>>
    /\ path' = <<>>
    /\ naps' = 0
    /\ calls' = <<>>
    /\ records' = <<>>
    /\ elapsed_time' = 0
    /\ raised' = NoError
    /\ deleted' = {}
    /\ undeleted' = {}
    /\ before' = {}
    /\ keep_latest_arg' = 0
    /\ prev_ok' = last_ok[e]
    /\ last_ok' = IF s THEN [last_ok EXCEPT ![e] = 0] ELSE last_ok
    /\ pc' = "fetch"
    /\ UNCHANGED <<elsewhere, config, files, last_saved>>

\* run_ingestion(): a client with the default arguments, then the characters.
RunIngestion ==
    /\ Idle
    /\ runs < MaxRuns
    /\ runs' = runs + 1
    /\ driver' = "run_ingestion"
    /\ max_retries' = API_MAX_RETRIES
    /\ session_open' = TRUE
    /\ BeginIngest("characters", TRUE)

\* RickMortyAPIClient(max_retries=m).ingest_entity(ENDPOINT(e), e, s)
DirectIngest(m, e, s) ==
    /\ Idle
    /\ runs < MaxRuns
    /\ runs' = runs + 1
    /\ driver' = "direct"
    /\ max_retries' = m
    /\ session_open' = TRUE
    /\ BeginIngest(e, s)

\* One attempt of _fetch_page(current_url) whose GET comes to a failure.
FailedAttempt(outcome) ==
    LET exc == body_exception(outcome)
        retryable == retry_if_exception_type(exc)
        log == Append(CallLog, [url |-> current_url, outcome |-> outcome])
    IN  /\ pc = "fetch"
        /\ attempts' = log
        /\ calls' = get(calls, current_url, outcome)
        /\ IF retryable /\ ~stop_after_attempt(attempt_number)
           THEN \* tenacity sleeps and calls the body again with the same url
                /\ sleeps' = Append(CallSleeps, wait_exponential(attempt_number))
                /\ attempt_number' = attempt_number + 1
                /\ UNCHANGED <<pc, raised, records>>
           ELSE \* the exception (or tenacity's RetryError) reaches fetch_all_pages
                LET after == pagination_failed(IF retryable THEN "RetryError"
                                                            ELSE outcome)
                IN  /\ sleeps' = CallSleeps
                    /\ raised' = after.raised
                    /\ records' = after.records
                    /\ pc' = after.pc
                    /\ UNCHANGED attempt_number
        /\ UNCHANGED <<elsewhere, config, driver, runs, client, callArgs, current_url,
                       all_results, page_number, elapsed_time, clock,
                       last_ok, prev_ok, last_saved, path, naps, storeVars>>

\* raise_for_status() raises HTTPError with a status of 500 or more.
Get5xx ==
    /\ pc = "fetch"
    /\ FailedAttempt("5xx")

\* raise_for_status() raises HTTPError with a status from 400 to 499.
Get4xx ==
    /\ pc = "fetch"
    /\ FailedAttempt("4xx")

\* session.get raises ConnectionError or Timeout.
GetTransportError(kind) ==
    /\ kind \in {"ConnectionError", "Timeout"}
    /\ FailedAttempt(kind)

\* response.json() raises on a body that is not JSON.
GetBadBody ==
    /\ pc = "fetch"
    /\ FailedAttempt("JSONDecodeError")

\* Variant: the attempt counter is carried over from one page to the next.
first_attempt_carried_over(n) == n

\* Each call of the decorated _fetch_page gets a retry state of its own from
\* tenacity, whose attempt_number starts at 1 whatever the call before took.
first_attempt_of_next_call(n) == 1

\* Variant: the snapshot is saved whatever save_to_file says.
after_fetch_always_saves(save) == "cleanup"

\* if save_to_file: the clean-up and the write, else straight to the summary
after_fetch(save) == IF save THEN "cleanup" ELSE "summary"

\* Variant: the delay follows every page, the last one too.
courtesy_sleeps_every_page(n, next) == n + 1

\* if current_url: page_number += 1; time.sleep(0.1)
courtesy_sleeps(n, next) == IF next # NoURL THEN n + 1 ELSE n

\* One attempt of _fetch_page(current_url) that returns the page, and the rest
\* of the loop body of fetch_all_pages; when info.next is absent the loop ends,
\* fetch_all_pages returns and ingest_entity reads the clock (el).
GetOk(el) ==
    LET next == next_link(current_url) IN
    /\ pc = "fetch"
    /\ next # NoURL => page_number < MaxPages
    /\ attempts' = Append(CallLog, [url |-> current_url, outcome |-> "ok"])
    /\ sleeps' = CallSleeps
    /\ calls' = get(calls, current_url, "ok")
    /\ all_results' = extend(all_results, results(current_url))
    /\ path' = Append(path, current_url)
    /\ current_url' = next
    /\ attempt_number' = first_attempt_of_next_call(attempt_number)
    /\ naps' = courtesy_sleeps(naps, next)
    /\ IF next # NoURL
       THEN /\ page_number' = page_number + 1
            /\ UNCHANGED <<pc, records, elapsed_time>>
       ELSE /\ records' = all_results'
            /\ elapsed_time' = el
            /\ pc' = after_fetch(save_to_file)
            /\ UNCHANGED page_number
    /\ UNCHANGED <<elsewhere, config, driver, runs, client, callArgs, raised, clock,
                   last_ok, prev_ok, last_saved, storeVars>>


\* --------------------------------------------------------- snapshot store
\* A file '<stem>_<name>.json' of an entity's directory: name is the timestamp
\* in its name and mtime its st_mtime; complete is FALSE for a file whose write
\* broke off (its text is cut short and holds no snapshot).  ended is a log:
\* whether the pagination of the call that wrote the file had reached a
\* response without next.
\* Variant: total_records counts the pages.
data_to_save_page_count(source, recs) ==
    [source |-> source, total_records |-> page_number, data |-> recs]

\* data_to_save = {"ingested_at", "source", "total_records", "data"}
data_to_save(source, recs) ==
    [source |-> source, total_records |-> Len(recs), data |-> recs]

NewFile(snapshot, complete) ==
    [stem |-> entity_name, name |-> clock, mtime |-> clock, complete |-> complete,
     source |-> IF complete THEN snapshot.source ELSE NoURL,
     total_records |-> IF complete THEN snapshot.total_records ELSE 0,
     data |-> IF complete THEN snapshot.data ELSE <<>>,
     ended |-> (current_url = NoURL)]

\* Variant: the pattern is not looked at.
glob_everything(S, stem) == S

\* glob(str(directory / pattern)) with pattern '<stem>_*.json'
glob(S, stem) == {f \in S : f.stem = stem}

\* sorted(glob(...), key=st_mtime, reverse=True)
RECURSIVE sorted_by_mtime(_)
sorted_by_mtime(S) ==
    IF S = {} THEN <<>>
    ELSE LET newest == CHOOSE f \in S : \A g \in S : g.mtime <= f.mtime
         IN  <<newest>> \o sorted_by_mtime(S \ {newest})

\* Variant: the newest file is always kept.
files_to_delete_but_newest(S, keep_latest) ==
    LET sorted == sorted_by_mtime(S)
    IN  {sorted[i] : i \in (keep_latest + 2)..Len(sorted)}

\* files_to_delete = files[keep_latest:]
files_to_delete(S, keep_latest) ==
    LET sorted == sorted_by_mtime(S)
    IN  {sorted[i] : i \in (keep_latest + 1)..Len(sorted)}

\* Variant: the loop ends at the first unlink that fails.
unlink_until_failure(todo, stuck) ==
    {f \in todo \ stuck : \A g \in stuck : f.mtime > g.mtime}

\* The files the loop over files_to_delete removes, in their sorted order:
\* each unlink is in a try of its own, one that fails (stuck) is logged and
\* the loop goes on.
unlink_all(todo, stuck) == todo \ stuck

\* cleanup_old_files(directory of e, '<e>_*.json', keep_latest=N)
cleanup_old_files(e, N, stuck) ==
    LET old == files_to_delete(glob(files[e], e), N)
        gone == unlink_all(old, stuck)
    IN  /\ stuck \subseteq old
        /\ before' = files[e]
        /\ keep_latest_arg' = N
        /\ files' = [files EXCEPT ![e] = @ \ gone]
        /\ deleted' = gone
        /\ undeleted' = stuck

\* ingest_entity: cleanup_old_files(entity_dir, '<entity>_*.json', keep_latest=0)
CleanupOldFiles(stuck) ==
    /\ pc = "cleanup"
    /\ cleanup_old_files(entity_name, KEEP_LATEST, stuck)
    /\ pc' = "write"
    /\ UNCHANGED <<elsewhere, config, driver, runs, client, callArgs, fetchVars, records,
                   elapsed_time, raised, clock, last_ok, prev_ok, last_saved>>

\* cleanup_old_files called on its own on the directory of e.
DirectCleanup(e, N, stuck) ==
    /\ Idle
    /\ runs < MaxRuns
    /\ runs' = runs + 1
    /\ driver' = "direct"
    /\ entity_name' = e
    /\ cleanup_old_files(e, N, stuck)
    /\ pc' = "cleaned"
    /\ UNCHANGED <<elsewhere, config, client, endpoint, save_to_file, fetchVars, records,
                   elapsed_time, raised, clock, last_ok, prev_ok, last_saved>>

\* save_json_to_file(data_to_save, file_path) completes.
WriteSnapshot ==
    LET new == NewFile(data_to_save(endpoint, records), TRUE)
    IN  /\ pc = "write"
        /\ files' = [files EXCEPT ![entity_name] =
                        {f \in @ : f.name # new.name} \cup {new}]
        /\ pc' = "summary"
        /\ UNCHANGED <<elsewhere, config, driver, runs, client, callArgs, fetchVars, records,
                       elapsed_time, raised, clock, last_ok, prev_ok, last_saved, deleted,
                       undeleted,
                       before, keep_latest_arg>>

\* Variant: the failed write is logged and ingest_entity carries on.
write_failed_carries_on ==
    [pc |-> "summary", raised |-> NoError]

\* What ingest_entity comes to when save_json_to_file raises: nothing in
\* ingest_entity catches it before the except clause, which raises
\* APIIngestionError.
write_failed ==
    [pc |-> "raised", raised |-> ingestion_error("OSError")]

\* save_json_to_file raises OSError: before the file exists (mkdir or open
\* failed) or, with partial, while json.dump was writing; ingest_entity's
\* except clause turns it into APIIngestionError.
WriteSnapshotFails(partial) ==
    LET new == NewFile(data_to_save(endpoint, records), FALSE)
    IN  /\ pc = "write"
        /\ files' = IF partial
                    THEN [files EXCEPT ![entity_name] =
                             {f \in @ : f.name # new.name} \cup {new}]
                    ELSE files
        /\ raised' = write_failed.raised
        /\ pc' = write_failed.pc
        /\ UNCHANGED <<elsewhere, config, driver, runs, client, callArgs, fetchVars, records,
                       elapsed_time, clock, last_ok, prev_ok, last_saved, deleted,
                       undeleted,
                       before, keep_latest_arg>>

\* print_summary(...) with "Records/Second": len(records)/elapsed_time, then
\* return records; a zero elapsed_time raises ZeroDivisionError inside the try.
PrintSummary ==
    /\ pc = "summary"
    /\ IF elapsed_time = 0
       THEN /\ raised' = ingestion_error("ZeroDivisionError")
            /\ pc' = "raised"
            /\ UNCHANGED <<last_ok, last_saved>>
       ELSE /\ pc' = "returned"
            /\ last_ok' = IF save_to_file
                          THEN [last_ok EXCEPT ![entity_name] = clock]
                          ELSE last_ok
            /\ last_saved' = IF save_to_file
                             THEN [last_saved EXCEPT ![entity_name] = clock]
                             ELSE last_saved
            /\ UNCHANGED raised
    /\ UNCHANGED <<elsewhere, config, driver, runs, client, callArgs, fetchVars, records,
                   elapsed_time, clock, prev_ok, storeVars>>

\* ------------------------------------------------------------ the callers
\* Variant: run_ingestion goes on to the episodes whatever the characters came to.
characters_ingested_or_failed ==
    /\ pc \in {"returned", "raised"}
    /\ entity_name = "characters"

\* run_ingestion reaches its second ingest_entity call when the first one,
\* for the characters, has returned.
characters_ingested ==
    /\ pc = "returned"
    /\ entity_name = "characters"

\* run_ingestion: the characters were returned, now the episodes.
IngestEpisodes ==
    /\ driver = "run_ingestion"
    /\ characters_ingested
    /\ BeginIngest("episodes", TRUE)
    /\ UNCHANGED <<driver, runs, client>>

\* run_ingestion returns both collections; finally: client.close().
RunIngestionReturns ==
    /\ pc = "returned"
    /\ driver = "run_ingestion"
    /\ entity_name = "episodes"
    /\ session_open' = FALSE
    /\ pc' = "idle"
    /\ UNCHANGED <<elsewhere, config, driver, runs, max_retries, callArgs, fetchVars,
                   records, elapsed_time, raised, clock, last_ok, prev_ok, last_saved, storeVars>>

\* An ingest_entity call of run_ingestion raised: finally: client.close(), and
\* the exception leaves run_ingestion.
RunIngestionRaises ==
    /\ pc = "raised"
    /\ driver = "run_ingestion"
    /\ session_open' = FALSE
    /\ pc' = "idle"
    /\ UNCHANGED <<elsewhere, config, driver, runs, max_retries, callArgs, fetchVars,
                   records, elapsed_time, raised, clock, last_ok, prev_ok, last_saved, storeVars>>

\* ------------------------------------------------------- specifications
InitCall ==
    /\ pc = "idle"
    /\ driver = "none"
    /\ runs = 0
    /\ max_retries = 0
    /\ session_open = FALSE
    /\ entity_name = "characters"
    /\ endpoint = NoURL
    /\ save_to_file = FALSE
    /\ current_url = NoURL
    /\ all_results = <<>>
    /\ page_number = 0
    /\ attempt_number = 0
    /\ records = <<>>
    /\ elapsed_time = 0
    /\ raised = NoError
    /\ clock = 0
    /\ last_ok = [e \in Entities |-> 0]
    /\ prev_ok = 0
    /\ last_saved = [e \in Entities |-> 0]
    /\ attempts = <<>>
    /\ sleeps = <<>>
    /\ path = <<>>
    /\ naps = 0
    /\ calls = <<>>
    /\ deleted = {}
    /\ undeleted = {}
    /\ before = {}
    /\ keep_latest_arg = 0

\* main has not been entered.
InitMain ==
    /\ step = "all"
    /\ mpc = "start"
    /\ stage = 1
    /\ dal = "None"
    /\ connection = "none"
    /\ started = <<>>
    /\ completed = <<>>
    /\ caught = "none"
    /\ close_call = "none"
    /\ status = {}

\* execute_script has not been entered.
InitScript ==
    /\ sql_script = <<>>
    /\ statements = <<>>
    /\ spc = "start"
    /\ cursor = "none"
    /\ executed = <<>>
    /\ failed_at = 0
    /\ script_error = "none"

NoAnalysis == [total |-> 0, passed |-> <<>>, failed |-> <<>>, warnings |-> <<>>,
               success_rate |-> [num |-> 0, den |-> 1]]

\* analyze_results has not been entered.
InitQuality ==
    /\ checks = <<>>
    /\ qpc = "loop"
    /\ qi = 1
    /\ passed = <<>>
    /\ failed = <<>>
    /\ warnings = <<>>
    /\ analysis = NoAnalysis

\* run_quality_checks_step has not been entered.
InitStage ==
    /\ dal_kind = "SnowflakeDAL"
    /\ results_by_query = <<>>
    /\ stpc = "start"
    /\ step_error = "none"

\* load_raw_entity has not been entered.
InitLoader ==
    /\ lpc = "idle"
    /\ load_entity = "characters"
    /\ latest_file = {}
    /\ uploaded = <<>>
    /\ copied = <<>>
    /\ load_error = "none"

InitElsewhere == InitMain /\ InitScript /\ InitQuality /\ InitStage /\ InitLoader

\* Nothing was called yet and the snapshot directories are empty.
InitProcess ==
    /\ InitCall
    /\ InitElsewhere
    /\ files = [e \in Entities |-> {}]

\* The configuration as shipped (no environment overrides).
Init ==
    /\ API_MAX_RETRIES = DEFAULT_API_MAX_RETRIES
    /\ API_RETRY_BACKOFF = DEFAULT_API_RETRY_BACKOFF
    /\ mock_session = FALSE
    /\ server \in Servers
    /\ InitProcess

Next ==
    \/ RunIngestion
    \/ \E e \in Entities, s \in BOOLEAN : DirectIngest(API_MAX_RETRIES, e, s)
    \/ \E el \in {0, 1} : GetOk(el)
    \/ Get5xx
    \/ Get4xx
    \/ \E kind \in {"ConnectionError", "Timeout"} : GetTransportError(kind)
    \/ GetBadBody
    \/ \E stuck \in SUBSET files[entity_name] : CleanupOldFiles(stuck)
    \/ WriteSnapshot
    \/ \E partial \in BOOLEAN : WriteSnapshotFails(partial)
    \/ PrintSummary
    \/ IngestEpisodes
    \/ RunIngestionReturns
    \/ RunIngestionRaises

Spec == Init /\ [][Next]_vars

\* API_MAX_RETRIES and API_RETRY_BACKOFF set through the environment; the
\* client is used directly, without persisting.
InitEnv ==
    /\ API_MAX_RETRIES \in 1..MaxEnvRetries
    /\ API_RETRY_BACKOFF \in 0..MaxEnvBackoff
    /\ mock_session = FALSE
    /\ server \in {s \in Servers : \A e \in Entities : ~s[e].loops}
    /\ InitProcess

NextEnv ==
    \/ \E m \in 1..MaxClientRetries, e \in Entities : DirectIngest(m, e, FALSE)
    \/ \E el \in {0, 1} : GetOk(el)
    \/ Get5xx
    \/ Get4xx
    \/ \E kind \in {"ConnectionError", "Timeout"} : GetTransportError(kind)
    \/ GetBadBody
    \/ PrintSummary

SpecEnv == InitEnv /\ [][NextEnv]_vars

\* The client on its own with a mock session in place of the HTTP session:
\* the configuration as shipped, any chain of pages (looping ones included),
\* any answer to each GET, nothing persisted.
InitPages ==
    /\ API_MAX_RETRIES = DEFAULT_API_MAX_RETRIES
    /\ API_RETRY_BACKOFF = DEFAULT_API_RETRY_BACKOFF
    /\ mock_session = TRUE
    /\ server \in Servers
    /\ InitProcess

NextPages ==
    \/ \E e \in Entities : DirectIngest(API_MAX_RETRIES, e, FALSE)
    \/ \E el \in {0, 1} : GetOk(el)
    \/ Get5xx
    \/ Get4xx
    \/ \E kind \in {"ConnectionError", "Timeout"} : GetTransportError(kind)
    \/ GetBadBody
    \/ PrintSummary

SpecPages == InitPages /\ [][NextPages]_vars

\* A file left in the characters directory by an earlier process: a snapshot
\* 'characters_<t>.json' or some other file 'other_<t>.json', last modified at m.
OldFile(stem, t, m) ==
    [stem |-> stem, name |-> t, mtime |-> m, complete |-> TRUE,
     source |-> ENDPOINT("characters"), total_records |-> 0, data |-> <<>>,
     ended |-> TRUE]

\* The directories SpecStore starts from: any snapshots of the MaxOld
\* timestamps up to 0, with or without one other file, their modification
\* times in the order of their names or (touched since) in the reverse order;
\* no two snapshots were modified at the same time.
OldDirectories ==
    LET stamps == (1 - MaxOld)..0
        mtime(t, reversed) == IF reversed THEN (1 - MaxOld) - t ELSE t
    IN  {{OldFile(x[1], x[2], mtime(x[2], reversed)) : x \in picks} :
            picks \in SUBSET (({"characters"} \X stamps) \cup {<<"other", 0>>}),
            reversed \in BOOLEAN}

\* The snapshot store on its own: the characters directory already holds
\* files, the resource has one page and every request succeeds;
\* cleanup_old_files is called directly and through ingest_entity.
InitStore ==
    /\ API_MAX_RETRIES = DEFAULT_API_MAX_RETRIES
    /\ API_RETRY_BACKOFF = DEFAULT_API_RETRY_BACKOFF
    /\ mock_session = FALSE
    /\ server = [e \in Entities |-> [len |-> 1, loops |-> FALSE]]
    /\ InitCall
    /\ InitElsewhere
    /\ \E dir \in OldDirectories :
          files = [e \in Entities |-> IF e = "characters" THEN dir ELSE {}]

NextStore ==
    \/ \E N \in 0..MaxOld, stuck \in SUBSET files["characters"] :
          DirectCleanup("characters", N, stuck)
    \/ DirectIngest(API_MAX_RETRIES, "characters", TRUE)
    \/ \E el \in {0, 1} : GetOk(el)
    \/ \E stuck \in SUBSET files[entity_name] : CleanupOldFiles(stuck)
    \/ WriteSnapshot
    \/ \E partial \in BOOLEAN : WriteSnapshotFails(partial)
    \/ PrintSummary

SpecStore == InitStore /\ [][NextStore]_vars

\* ------------------------------------------- raw_loader.py: load_raw_entity
\* Variant: the last file of the sorted list is taken.
latest_of_oldest_first(sorted) == sorted[Len(sorted)]

\* latest_file = files[0]
latest_of(sorted) == sorted[1]

\* load_raw_entity(dal, e, RAW_DATA_PATH / e, ...) from its glob to its end,
\* called while no ingestion is in progress.  With no matching file it raises
\* FileNotFoundError.  Otherwise the newest file is handed to
\* dal.upload_file_to_stage and, unless that raises, its name to
\* dal.copy_into_from_stage, which returns the row count or raises.
LoadRawEntity(e, outcome) ==
    LET sorted == sorted_by_mtime(glob(files[e], e))
    IN  /\ Idle
        /\ outcome \in {"loaded", "upload_fails", "copy_fails"}
        /\ load_entity' = e
        /\ IF sorted = <<>>
           THEN /\ latest_file' = {}
                /\ uploaded' = <<>>
                /\ copied' = <<>>
                /\ load_error' = "FileNotFoundError"
                /\ lpc' = "raised"
           ELSE /\ latest_file' = {latest_of(sorted)}
                /\ uploaded' = <<latest_of(sorted)>>
                /\ copied' = IF outcome = "upload_fails" THEN <<>>
                             ELSE <<latest_of(sorted)>>
                /\ load_error' = IF outcome = "loaded" THEN "none" ELSE "Exception"
                /\ lpc' = IF outcome = "loaded" THEN "returned" ELSE "raised"
        /\ UNCHANGED <<ingestionVars, mainVars, scriptVars, qualityVars, stageVars>>

\* Saving ingestion runs and loads, one after the other: each run returns,
\* fails in its fetch, or returns after deletions that failed; the resources
\* have one page.
InitLoad ==
    /\ API_MAX_RETRIES = DEFAULT_API_MAX_RETRIES
    /\ API_RETRY_BACKOFF = DEFAULT_API_RETRY_BACKOFF
    /\ mock_session = FALSE
    /\ server = [e \in Entities |-> [len |-> 1, loops |-> FALSE]]
    /\ InitProcess

NextLoad ==
    \/ \E e \in Entities : DirectIngest(API_MAX_RETRIES, e, TRUE)
    \/ GetOk(1)
    \/ Get5xx
    \/ Get4xx
    \/ \E kind \in {"ConnectionError", "Timeout"} : GetTransportError(kind)
    \/ GetBadBody
    \/ \E stuck \in SUBSET files[entity_name] : CleanupOldFiles(stuck)
    \/ WriteSnapshot
    \/ PrintSummary
    \/ \E e \in Entities, outcome \in {"loaded", "upload_fails", "copy_fails"} :
          LoadRawEntity(e, outcome)

SpecLoad == InitLoad /\ [][NextLoad]_vars

\* ------------------------------------------------------------------ main.py
\* The stages in the order of main's if statements.
Stages == <<"setup-snowflake", "ingest", "load-raw", "setup-dbo", "transform",
            "quality">>
\* --step choices
Steps == {Stages[i] : i \in DOMAIN Stages} \cup {"all"}

\* needs_dal = args.step in ['setup-snowflake', 'load-raw', 'setup-dbo',
\*                           'transform', 'quality', 'all']
needs_dal(s) ==
    s \in {"setup-snowflake", "load-raw", "setup-dbo", "transform", "quality", "all"}

\* The stages that are handed the dal.
uses_dal(i) == Stages[i] # "ingest"

\* Variant: every stage runs whatever step was asked for.
selected_always(i) == TRUE

\* if args.step in [<stage i>, 'all']
selected(i) == step \in {Stages[i], "all"}

\* The exceptions a stage or the DAL constructor lets out; all but
\* KeyboardInterrupt are subclasses of Exception.
Exceptions == {"Exception", "ValueError", "SnowflakeError", "APIIngestionError",
               "KeyboardInterrupt"}

\* Variant: every exception is answered with the failure status.
except_clause_failure_only(exc) == EXIT_FAILURE

\* main's except clauses: KeyboardInterrupt returns 130, Exception returns 1.
except_clause(exc) ==
    IF exc = "KeyboardInterrupt" THEN EXIT_INTERRUPTED ELSE EXIT_FAILURE

\* An exception raised inside main's try reaches an except clause, whose
\* return statement is followed by the finally clause.
MainCatches(exc) ==
    /\ caught' = exc
    /\ status' = {except_clause(exc)}
    /\ mpc' = "finally"

\* main is entered with --step s; when the step needs it, SnowflakeDAL() is
\* constructed (the connection is made later, by the first query).
MainStarts(s) ==
    /\ mpc = "start"
    /\ step' = s
    /\ dal' = IF needs_dal(s) THEN "created" ELSE "None"
    /\ mpc' = "stages"
    /\ UNCHANGED <<ingestionVars, stageVars, loaderVars,
                   scriptVars, qualityVars, stage, connection, started, completed,
                   caught, close_call, status>>

\* SnowflakeDAL() raises (_validate_config: ValueError) or is interrupted.
ConstructionRaises(s, exc) ==
    /\ mpc = "start"
    /\ needs_dal(s)
    /\ exc \in {"ValueError", "KeyboardInterrupt"}
    /\ step' = s
    /\ MainCatches(exc)
    /\ UNCHANGED <<ingestionVars, stageVars, loaderVars,
                   scriptVars, qualityVars, stage, dal, connection, started, completed,
                   close_call>>

\* The if statement of a stage that was not asked for.
SkipStage ==
    /\ mpc = "stages"
    /\ stage <= Len(Stages)
    /\ ~selected(stage)
    /\ stage' = stage + 1
    /\ UNCHANGED <<ingestionVars, stageVars, loaderVars,
                   scriptVars, qualityVars, step, mpc, dal, connection, started,
                   completed, caught, close_call, status>>

\* The connection after a stage ran: a stage handed the dal connects with its
\* first query unless that fails (connects); an open connection is reused.
connection_after(i, connects) ==
    IF uses_dal(i) /\ connection # "open" /\ connects THEN "open" ELSE connection

\* A stage that was asked for runs and returns.
StageCompletes ==
    /\ mpc = "stages"
    /\ stage <= Len(Stages)
    /\ selected(stage)
    /\ started' = Append(started, Stages[stage])
    /\ completed' = Append(completed, Stages[stage])
    /\ connection' = connection_after(stage, TRUE)
    /\ stage' = stage + 1
    /\ UNCHANGED <<ingestionVars, stageVars, loaderVars,
                   scriptVars, qualityVars, step, mpc, dal, caught, close_call, status>>

\* A stage that was asked for runs and raises: its own except clause logs and
\* re-raises an Exception, a KeyboardInterrupt passes through it.
StageRaises(exc, connects) ==
    /\ mpc = "stages"
    /\ stage <= Len(Stages)
    /\ selected(stage)
    /\ exc \in IF Stages[stage] = "ingest"
               THEN {"APIIngestionError", "KeyboardInterrupt"}
               ELSE {"Exception", "SnowflakeError", "KeyboardInterrupt"}
    /\ started' = Append(started, Stages[stage])
    /\ connection' = connection_after(stage, connects)
    /\ MainCatches(exc)
    /\ UNCHANGED <<ingestionVars, stageVars, loaderVars,
                   scriptVars, qualityVars, step, stage, dal, completed, close_call>>

\* All if statements are passed: the summary is logged and return 0 is reached.
MainCompletes ==
    /\ mpc = "stages"
    /\ stage > Len(Stages)
    /\ status' = {EXIT_OK}
    /\ mpc' = "finally"
    /\ UNCHANGED <<ingestionVars, stageVars, loaderVars,
                   scriptVars, qualityVars, step, stage, dal, connection, started,
                   completed, caught, close_call>>

\* finally: if dal is not None, dal.close(), which closes an open connection;
\* a close that raises (fails) is logged as a warning.  Then main returns.
MainFinally(fails) ==
    /\ mpc = "finally"
    /\ fails => (dal # "None" /\ connection = "open")
    /\ connection' = IF dal # "None" /\ connection = "open" /\ ~fails
                      THEN "closed" ELSE connection
    /\ close_call' = IF dal = "None" THEN "none"
                      ELSE IF fails THEN "raised" ELSE "returned"
    /\ mpc' = "returned"
    /\ UNCHANGED <<ingestionVars, stageVars, loaderVars,
                   scriptVars, qualityVars, step, stage, dal, started, completed,
                   caught, status>>

InitMainSpec ==
    /\ API_MAX_RETRIES = DEFAULT_API_MAX_RETRIES
    /\ API_RETRY_BACKOFF = DEFAULT_API_RETRY_BACKOFF
    /\ mock_session = FALSE
    /\ server = [e \in Entities |-> [len |-> 1, loops |-> FALSE]]
    /\ InitProcess

NextMain ==
    \/ \E s \in Steps : MainStarts(s)
    \/ \E s \in Steps, exc \in Exceptions : ConstructionRaises(s, exc)
    \/ SkipStage
    \/ StageCompletes
    \/ \E exc \in Exceptions, connects \in BOOLEAN : StageRaises(exc, connects)
    \/ MainCompletes
    \/ \E fails \in BOOLEAN : MainFinally(fails)

SpecMain == InitMainSpec /\ [][NextMain]_vars

\* ------------------------------------------ snowflake_dal.py: execute_script
\* A script is a sequence of tokens: "A" is any text without the other
\* tokens, "--" two dashes, "'" a quote, " " a blank, "\n" a line break.
Tokens == {"A", ";", "--", "'", " ", "\n"}
Whitespace == {" ", "\n"}
Scripts == UNION {[1..n -> Tokens] : n \in 0..MaxScript}

\* str.split(sep): the pieces between the occurrences of sep, empty ones kept.
RECURSIVE split(_, _)
split(str, sep) ==
    IF \A i \in 1..Len(str) : str[i] # sep THEN <<str>>
    ELSE LET i == CHOOSE j \in 1..Len(str) :
                      str[j] = sep /\ \A k \in 1..(j - 1) : str[k] # sep
         IN  <<SubSeq(str, 1, i - 1)>> \o split(SubSeq(str, i + 1, Len(str)), sep)

\* str.strip(): without its leading and trailing whitespace.
RECURSIVE lstrip(_)
lstrip(str) ==
    IF str # <<>> /\ Head(str) \in Whitespace THEN lstrip(Tail(str)) ELSE str

RECURSIVE rstrip(_)
rstrip(str) ==
    IF str # <<>> /\ str[Len(str)] \in Whitespace
    THEN rstrip(SubSeq(str, 1, Len(str) - 1)) ELSE str

strip(str) == rstrip(lstrip(str))

\* sep.join(parts)
RECURSIVE join(_, _)
join(parts, sep) ==
    IF parts = <<>> THEN <<>>
    ELSE IF Len(parts) = 1 THEN parts[1]
    ELSE parts[1] \o <<sep>> \o join(Tail(parts), sep)

\* if line.strip() and not line.strip().startswith('--')
line_kept(line) ==
    /\ strip(line) # <<>>
    /\ Head(strip(line)) # "--"

\* cleaned_stmt = '\n'.join(cleaned_lines).strip()
cleaned_stmt(stmt) == strip(join(SelectSeq(split(stmt, "\n"), line_kept), "\n"))

nonempty(str) == str # <<>>

RECURSIVE cleaned_all(_)
cleaned_all(raw_statements) ==
    IF raw_statements = <<>> THEN <<>>
    ELSE <<cleaned_stmt(Head(raw_statements))>> \o cleaned_all(Tail(raw_statements))

\* raw_statements = sql_script.split(';'), then the loop that cleans each
\* piece and keeps the non-empty ones.
clean_statements(script) == SelectSeq(cleaned_all(split(script, ";")), nonempty)

\* execute_script(sql_script) up to the try: the statements are split and
\* cleaned, self.connect() and conn.cursor() succeed.
ExecuteScript ==
    /\ spc = "start"
    /\ statements' = clean_statements(sql_script)
    /\ cursor' = "open"
    /\ spc' = "loop"
    /\ UNCHANGED <<ingestionVars, stageVars, loaderVars,
                   mainVars, qualityVars, sql_script, executed, failed_at,
                   script_error>>

\* self.connect() raises: no cursor is made and nothing is executed.
ConnectFails ==
    /\ spc = "start"
    /\ statements' = clean_statements(sql_script)
    /\ script_error' = "SnowflakeError"
    /\ spc' = "raised"
    /\ UNCHANGED <<ingestionVars, stageVars, loaderVars,
                   mainVars, qualityVars, sql_script, cursor, executed,
                   failed_at>>

\* Variant: a statement that fails is logged and the loop goes on.
statement_failed_skipped(exc) ==
    [spc |-> "loop", cursor |-> "open", script_error |-> "none"]

\* cursor.execute(statement) raises: a SnowflakeError is logged and re-raised,
\* any other exception passes; finally: cursor.close().
statement_failed(exc) ==
    [spc |-> "raised", cursor |-> "closed", script_error |-> exc]

\* One turn of the loop: cursor.execute(statement) returns.
StatementExecuted ==
    /\ spc = "loop"
    /\ Len(executed) < Len(statements)
    /\ executed' = Append(executed, statements[Len(executed) + 1])
    /\ UNCHANGED <<ingestionVars, stageVars, loaderVars,
                   mainVars, qualityVars, sql_script, statements, spc, cursor,
                   failed_at, script_error>>

\* One turn of the loop: cursor.execute(statement) raises.
StatementFails(exc) ==
    LET after == statement_failed(exc)
    IN  /\ spc = "loop"
        /\ Len(executed) < Len(statements)
        /\ executed' = Append(executed, statements[Len(executed) + 1])
        /\ failed_at' = Len(executed) + 1
        /\ spc' = after.spc
        /\ cursor' = after.cursor
        /\ script_error' = after.script_error
        /\ UNCHANGED <<ingestionVars, stageVars, loaderVars,
                       mainVars, qualityVars, sql_script, statements>>

\* The loop is over: finally: cursor.close(), and execute_script returns.
ScriptReturns ==
    /\ spc = "loop"
    /\ Len(executed) = Len(statements)
    /\ cursor' = "closed"
    /\ spc' = "returned"
    /\ UNCHANGED <<ingestionVars, stageVars, loaderVars,
                   mainVars, qualityVars, sql_script, statements, executed,
                   failed_at, script_error>>

InitScriptSpec ==
    /\ API_MAX_RETRIES = DEFAULT_API_MAX_RETRIES
    /\ API_RETRY_BACKOFF = DEFAULT_API_RETRY_BACKOFF
    /\ mock_session = FALSE
    /\ server = [e \in Entities |-> [len |-> 1, loops |-> FALSE]]
    /\ InitCall
    /\ files = [e \in Entities |-> {}]
    /\ InitMain
    /\ InitQuality
    /\ InitStage
    /\ InitLoader
    /\ sql_script \in Scripts
    /\ statements = <<>>
    /\ spc = "start"
    /\ cursor = "none"
    /\ executed = <<>>
    /\ failed_at = 0
    /\ script_error = "none"

NextScript ==
    \/ ExecuteScript
    \/ ConnectFails
    \/ StatementExecuted
    \/ \E exc \in {"SnowflakeError", "Exception"} : StatementFails(exc)
    \/ ScriptReturns

SpecScript == InitScriptSpec /\ [][NextScript]_vars

\* --------------------------------------- quality_checks.py: analyze_results
\* A check row is <<check_name, status>>: the status is its last column, and
\* "ERROR" stands for any value other than the three analyze_results names.
Statuses == {"PASS", "FAIL", "WARNING", "ERROR"}
Rows == {"a", "b"} \X Statuses
CheckLists == UNION {[1..n -> Rows] : n \in 0..MaxChecks}

\* status = check[-1] and the if / elif chain: the list the row is appended to,
\* "none" when no branch is taken.
classify(check) ==
    LET row_status == check[Len(check)]
    IN  IF row_status = "PASS" THEN "passed"
        ELSE IF row_status = "FAIL" THEN "failed"
        ELSE IF row_status = "WARNING" THEN "warnings"
        ELSE "none"

\* (len(passed) / len(checks) * 100) if checks else 0, as an exact fraction
success_rate(n_passed, n_checks) ==
    IF n_checks = 0 THEN [num |-> 0, den |-> 1]
    ELSE [num |-> n_passed * 100, den |-> n_checks]

\* One turn of the loop over checks.
ClassifyCheck ==
    LET check == checks[qi]
        list == classify(check)
    IN  /\ qpc = "loop"
        /\ qi <= Len(checks)
        /\ passed' = IF list = "passed" THEN Append(passed, check) ELSE passed
        /\ failed' = IF list = "failed" THEN Append(failed, check) ELSE failed
        /\ warnings' = IF list = "warnings" THEN Append(warnings, check)
                       ELSE warnings
        /\ qi' = qi + 1
        /\ UNCHANGED <<ingestionVars, stageVars, loaderVars, mainVars, scriptVars,
                   checks, qpc, analysis>>

\* The loop is over: the dictionary is built and returned.
AnalyzeReturns ==
    /\ qpc = "loop"
    /\ qi > Len(checks)
    /\ analysis' = [total |-> Len(checks), passed |-> passed, failed |-> failed,
                    warnings |-> warnings,
                    success_rate |-> success_rate(Len(passed), Len(checks))]
    /\ qpc' = "returned"
    /\ UNCHANGED <<ingestionVars, stageVars, loaderVars,
                   mainVars, scriptVars, checks, qi, passed,
                   failed, warnings>>

\* analyze_results(checks) is entered: the three lists are empty.
InitQualitySpec ==
    /\ API_MAX_RETRIES = DEFAULT_API_MAX_RETRIES
    /\ API_RETRY_BACKOFF = DEFAULT_API_RETRY_BACKOFF
    /\ mock_session = FALSE
    /\ server = [e \in Entities |-> [len |-> 1, loops |-> FALSE]]
    /\ InitCall
    /\ files = [e \in Entities |-> {}]
    /\ InitMain
    /\ InitScript
    /\ InitStage
    /\ InitLoader
    /\ checks \in CheckLists
    /\ qpc = "loop"
    /\ qi = 1
    /\ passed = <<>>
    /\ failed = <<>>
    /\ warnings = <<>>
    /\ analysis = NoAnalysis

NextQuality ==
    \/ ClassifyCheck
    \/ AnalyzeReturns

SpecQuality == InitQualitySpec /\ [][NextQuality]_vars

\* ------------------- main.py: run_quality_checks_step / run_quality_checks
\* The public methods class SnowflakeDAL defines (it has no __getattr__).
SnowflakeDAL_methods ==
    {"connect", "close", "execute_query", "execute_script", "execute_file",
     "table_exists", "get_row_count", "upload_file_to_stage",
     "copy_into_from_stage", "load_json_to_raw_table", "test_connection"}

\* Whether the attribute lookup dal.<method> finds something to call.
responds_to(kind, method) ==
    kind = "double" \/ method \in SnowflakeDAL_methods

\* for result_set in results_by_query: all_results.extend(result_set)
RECURSIVE flatten(_)
flatten(sets) ==
    IF sets = <<>> THEN <<>> ELSE extend(sets[1], flatten(Tail(sets)))

\* What the queries of the file may return: no result set, one, or two, holding
\* at most MaxChecks rows between them.
ResultSets ==
    {<<>>} \cup {<<c>> : c \in CheckLists}
           \cup UNION {{<<SubSeq(c, 1, k), SubSeq(c, k + 1, Len(c))>> :
                           k \in 0..Len(c)} : c \in CheckLists}

\* execute_all_checks: dal.execute_queries_from_file(...) on an object that has
\* no such attribute raises AttributeError, which leaves run_quality_checks
\* and is logged and re-raised by run_quality_checks_step.
AttributeLookupFails ==
    /\ stpc = "start"
    /\ ~responds_to(dal_kind, "execute_queries_from_file")
    /\ stpc' = "raised"
    /\ step_error' = "AttributeError"
    /\ UNCHANGED <<ingestionVars, mainVars, scriptVars, qualityVars, loaderVars,
                   dal_kind, results_by_query>>

\* execute_all_checks: the call returns one result set per query; they are
\* flattened in order and analyze_results is entered with the rows.
ExecuteAllChecks(sets) ==
    /\ stpc = "start"
    /\ responds_to(dal_kind, "execute_queries_from_file")
    /\ results_by_query' = sets
    /\ checks' = flatten(sets)
    /\ qpc' = "loop"
    /\ qi' = 1
    /\ passed' = <<>>
    /\ failed' = <<>>
    /\ warnings' = <<>>
    /\ stpc' = "analyze"
    /\ UNCHANGED <<ingestionVars, mainVars, scriptVars, loaderVars, analysis,
                   dal_kind, step_error>>

\* execute_all_checks: a query of the file fails and the call raises.
QueriesRaise ==
    /\ stpc = "start"
    /\ responds_to(dal_kind, "execute_queries_from_file")
    /\ stpc' = "raised"
    /\ step_error' = "SnowflakeError"
    /\ UNCHANGED <<ingestionVars, mainVars, scriptVars, qualityVars, loaderVars,
                   dal_kind, results_by_query>>

\* if results['failed']
stage_fails(dict) == dict.failed # <<>>

\* analyze_results has returned: print_quality_summary, run_quality_checks
\* returns, and run_quality_checks_step raises Exception when the failed list
\* is not empty (its except clause logs and re-raises) and returns otherwise.
QualityStepEnds ==
    /\ stpc = "analyze"
    /\ qpc = "returned"
    /\ IF stage_fails(analysis)
       THEN stpc' = "raised" /\ step_error' = "Exception"
       ELSE stpc' = "returned" /\ step_error' = "none"
    /\ UNCHANGED <<ingestionVars, mainVars, scriptVars, qualityVars, loaderVars,
                   dal_kind, results_by_query>>

\* run_quality_checks_step(dal) is entered, with the SnowflakeDAL main
\* constructs or with a stand-in that answers execute_queries_from_file.
InitStageSpec ==
    /\ API_MAX_RETRIES = DEFAULT_API_MAX_RETRIES
    /\ API_RETRY_BACKOFF = DEFAULT_API_RETRY_BACKOFF
    /\ mock_session = FALSE
    /\ server = [e \in Entities |-> [len |-> 1, loops |-> FALSE]]
    /\ InitCall
    /\ files = [e \in Entities |-> {}]
    /\ InitMain
    /\ InitScript
    /\ InitLoader
    /\ checks = <<>>
    /\ qpc = "idle"
    /\ qi = 1
    /\ passed = <<>>
    /\ failed = <<>>
    /\ warnings = <<>>
    /\ analysis = NoAnalysis
    /\ dal_kind \in {"SnowflakeDAL", "double"}
    /\ results_by_query = <<>>
    /\ stpc = "start"
    /\ step_error = "none"

NextStage ==
    \/ AttributeLookupFails
    \/ \E sets \in ResultSets : ExecuteAllChecks(sets)
    \/ QueriesRaise
    \/ ClassifyCheck
    \/ AnalyzeReturns
    \/ QualityStepEnds

SpecStage == InitStageSpec /\ [][NextStage]_vars


\* ------------------------------------------------------------ properties
\* The pages of resource e in chain order, and the collection they add up to.
Chain(e) == [i \in 1..server[e].len |-> <<e, i>>]
FullCollection(e) == Concat(Chain(e))

RECURSIVE TotalRecords(_, _)
TotalRecords(e, i) ==
    IF i = 0 THEN 0 ELSE Len(results(<<e, i>>)) + TotalRecords(e, i - 1)

Occurrences(r, list) == Cardinality({i \in 1..Len(list) : list[i] = r})

\* fetch_all_pages of the current (or latest) call has returned.
FetchReturned == path # <<>> /\ current_url = NoURL

\* The latest _fetch_page call made n GETs, all answered 5xx.
AllServerErrors(n) ==
    /\ Len(attempts) = n
    /\ \A i \in 1..n : attempts[i].outcome = "5xx"

\* C1: when fetch_all_pages returns, the pages fetched are the P pages of the
\* chain in order and the result is the concatenation of their results: its
\* length is the total N and no record is duplicated, dropped or reordered.
C1_AllPagesInOrder ==
    FetchReturned =>
        /\ path = Chain(entity_name)
        /\ records = FullCollection(entity_name)
        /\ Len(records) = TotalRecords(entity_name, server[entity_name].len)

C1_Witness ==
    /\ FetchReturned
    /\ ~server[entity_name].loops
    /\ Len(path) = 2
    /\ Len(attempts) = 1
    /\ records = <<11, 12, 21>>

\* C2: a 4xx answer ends the fetch at once: nothing follows it in the page's
\* request log (no retry, no backoff sleep: a page whose first answer is 4xx is
\* requested once), ingest_entity raises APIIngestionError, no further page is
\* fetched and nothing is returned.
C2_ClientErrorFailsAtOnce ==
    LET n == Len(attempts)
    IN  /\ \A i \in 1..(n - 1) : attempts[i].outcome # "4xx"
        /\ (n > 0 /\ attempts[n].outcome = "4xx") =>
              /\ pc \in {"raised", "idle"}
              /\ raised = [type |-> "APIIngestionError", cause |-> "4xx"]
              /\ attempt_number = n
              /\ Len(sleeps) = n - 1
              /\ current_url = attempts[n].url
              /\ Len(path) = page_number - 1
              /\ records = <<>>
              /\ \A f \in files[entity_name] : f.name # clock

C2_Witness ==
    /\ pc = "raised"
    /\ page_number = 2
    /\ attempts = <<[url |-> <<entity_name, 2>>, outcome |-> "4xx"]>>
    /\ sleeps = <<>>
    /\ save_to_file

\* C3 (as claimed): a connection failure or timeout on an attempt before the
\* last one is followed by a backoff sleep and another request of the same URL.
C3_TransportErrorIsRetried ==
    LET n == Len(attempts)
    IN  (/\ n > 0
         /\ n < API_MAX_RETRIES
         /\ attempts[n].outcome \in {"ConnectionError", "Timeout"}) =>
            /\ pc = "fetch"
            /\ attempt_number = n + 1
            /\ Len(sleeps) = n
            /\ current_url = attempts[n].url

\* C4: a page answered 5xx k times and then 2xx took k+1 <= API_MAX_RETRIES
\* requests, all of the same URL, and its records are in the collection exactly
\* once; the fetch that returns still returns the complete collection.
C4_RetriedPageFetchedOnce ==
    LET n == Len(attempts)
        url == attempts[n].url
    IN  /\ (/\ n >= 2
            /\ attempts[n].outcome = "ok"
            /\ \A i \in 1..(n - 1) : attempts[i].outcome = "5xx") =>
               /\ n <= API_MAX_RETRIES
               /\ \A i \in 1..n : attempts[i].url = url
               /\ Last(path) = url
               /\ Len(sleeps) = n - 1
               /\ all_results = Concat(path)
               /\ ~server[entity_name].loops =>
                     \A j \in 1..Len(results(url)) :
                         Occurrences(results(url)[j], all_results) = 1
        /\ FetchReturned => records = Concat(path)

C4_Witness ==
    /\ FetchReturned
    /\ Len(path) = 2
    /\ Len(attempts) = API_MAX_RETRIES
    /\ attempts[API_MAX_RETRIES].outcome = "ok"
    /\ attempts[API_MAX_RETRIES - 1].outcome = "5xx"
    /\ records = <<11, 12, 21>>

\* C5: API_MAX_RETRIES consecutive 5xx answers for a page are the last requests
\* of it: ingest_entity raises APIIngestionError (tenacity's RetryError
\* underneath), returns nothing and neither deletes nor writes a snapshot file.
C5_ExhaustedRetriesFail ==
    (Len(attempts) >= API_MAX_RETRIES /\ AllServerErrors(Len(attempts))) =>
        /\ Len(attempts) = API_MAX_RETRIES
        /\ pc \in {"raised", "idle"}
        /\ raised = [type |-> "APIIngestionError", cause |-> "RetryError"]
        /\ Len(sleeps) = API_MAX_RETRIES - 1
        /\ records = <<>>
        /\ deleted = {}
        /\ \A f \in files[entity_name] : f.name # clock

C5_Witness ==
    /\ AllServerErrors(API_MAX_RETRIES)
    /\ pc = "raised"
    /\ save_to_file
    /\ page_number = 2
    /\ files[entity_name] # {}

\* C6: every file in a snapshot directory was written after its pagination had
\* reached the response without next, and every snapshot holds the complete
\* collection of its resource, never a proper prefix; a call whose fetch failed
\* has written no file.
C6_NoPartialSnapshot ==
    /\ \A e \in Entities : \A f \in files[e] :
          /\ f.ended
          /\ f.complete =>
                /\ f.data = FullCollection(e)
                /\ f.total_records = Len(FullCollection(e))
    /\ (pc = "raised" /\ ~FetchReturned) =>
          \A f \in files[entity_name] : f.name # clock

C6_Witness ==
    /\ pc = "raised"
    /\ raised.cause = "JSONDecodeError"
    /\ save_to_file
    /\ page_number = 2
    /\ all_results = results(ENDPOINT(entity_name))
    /\ \E f \in files[entity_name] : f.complete /\ Len(f.data) > Len(all_results)

\* C7 (as claimed): after two successive successful saving runs for an entity
\* its directory holds exactly one snapshot file, the one the second run wrote.
C7_ExactlyOneSnapshot ==
    (pc = "returned" /\ save_to_file /\ prev_ok > 0) =>
        /\ Cardinality(files[entity_name]) = 1
        /\ \A f \in files[entity_name] : f.name = clock

\* C7 (amended): after a successful saving run the entity's directory holds the
\* file this run wrote, which is the newest, and besides it exactly the old
\* files whose deletion failed in this run's cleanup; with no failed deletion
\* that is exactly one file.
C7_OneSnapshotUnlessUndeleted ==
    (pc = "returned" /\ save_to_file) =>
        LET dir == files[entity_name]
            new == {f \in dir : f.name = clock}
        IN  /\ Cardinality(new) = 1
            /\ \A f \in new : f.complete /\ \A g \in dir : g.name <= f.name
            /\ dir = new \cup undeleted
            /\ undeleted = {} => Cardinality(dir) = 1

C7_Witness ==
    /\ pc = "returned"
    /\ save_to_file
    /\ prev_ok > 0
    /\ \E f \in deleted : f.name = prev_ok
    /\ undeleted = {}
    /\ Cardinality(files[entity_name]) = 1
    /\ \A f \in files[entity_name] : f.name = clock /\ f.name > prev_ok

\* C8: in every snapshot total_records is the length of data and source is the
\* endpoint; the snapshot the current call wrote holds exactly the records
\* fetch_all_pages returned, in their order.
C8_SnapshotMatchesFetch ==
    /\ \A e \in Entities : \A f \in files[e] :
          f.complete => f.total_records = Len(f.data) /\ f.source = ENDPOINT(e)
    /\ (FetchReturned /\ save_to_file) =>
          \A f \in files[entity_name] :
              (f.name = clock /\ f.complete) =>
                  /\ f.data = records
                  /\ f.total_records = Len(records)
                  /\ f.source = endpoint

C8_Witness ==
    /\ pc = "summary"
    /\ save_to_file
    /\ \E f \in files[entity_name] :
          /\ f.name = clock
          /\ f.complete
          /\ f.total_records = 3
          /\ f.data = <<11, 12, 21>>
          /\ f.source = endpoint

\* C9: the k-th backoff delay of a page request is
\* min(30, max(1, API_RETRY_BACKOFF * 2^(k-1))): at least 1, at most 30,
\* non-decreasing; one delay follows each failed attempt but the last, and with
\* the defaults (2, 5) the delays are 2, 4, 8, 16.
ClaimedDelay(base, k) == Min(30, Max(1, base * Pow(2, k - 1)))

C9_BackoffDelays ==
    /\ \A k \in 1..Len(sleeps) :
          /\ sleeps[k] = ClaimedDelay(API_RETRY_BACKOFF, k)
          /\ sleeps[k] >= 1
          /\ sleeps[k] <= 30
          /\ k > 1 => sleeps[k - 1] <= sleeps[k]
    /\ Len(sleeps) <= API_MAX_RETRIES - 1
    /\ Len(attempts) > 0 =>
          Len(sleeps) = IF pc = "fetch" /\ attempt_number > 1
                        THEN Len(attempts) ELSE Len(attempts) - 1
    /\ (API_RETRY_BACKOFF = 2 /\ API_MAX_RETRIES = 5) =>
          sleeps = SubSeq(<<2, 4, 8, 16>>, 1, Len(sleeps))

C9_Witness ==
    /\ API_RETRY_BACKOFF = 2
    /\ API_MAX_RETRIES = 5
    /\ AllServerErrors(5)
    /\ pc = "raised"
    /\ sleeps = <<2, 4, 8, 16>>

\* C10 (as claimed), with the configuration as shipped: a page that keeps
\* answering 5xx is requested exactly client.max_retries times before the
\* fetch fails.
C10_ClientRetryBound ==
    (/\ API_MAX_RETRIES = DEFAULT_API_MAX_RETRIES
     /\ pc = "raised"
     /\ raised.cause = "RetryError") => Len(attempts) = max_retries
\* The snapshot of the current call is on disk, whole.
SnapshotWritten ==
    \E f \in files[entity_name] : f.name = clock /\ f.complete

\* C11 (as claimed): a saving call whose fetch returned and whose snapshot is
\* written never raises, whatever the elapsed time measured.
C11_ZeroElapsedReturns ==
    (FetchReturned /\ save_to_file /\ SnapshotWritten) => pc # "raised"

\* C12: a saving call whose fetch returned gets past the write only with its
\* snapshot on disk: a failed snapshot write ends ingest_entity with APIIngestionError and
\* without returning the records; run_ingestion's only step after an
\* ingest_entity that raised is to close the session and let the error out:
\* it starts no other entity, sends no request and touches no file.
C12_WriteFailureIsFatal ==
    /\ []((/\ FetchReturned
            /\ save_to_file
            /\ pc \notin {"cleanup", "write"}
            /\ ~SnapshotWritten) =>
               /\ pc \in {"raised", "idle"}
               /\ raised = [type |-> "APIIngestionError", cause |-> "OSError"]
               /\ last_ok[entity_name] = 0)
    /\ [][(pc = "raised" /\ driver = "run_ingestion") =>
            /\ pc' = "idle"
            /\ raised' = raised
            /\ entity_name' = entity_name
            /\ attempts' = attempts
            /\ files' = files]_vars

C12_Witness ==
    /\ driver = "run_ingestion"
    /\ pc = "idle"
    /\ raised = [type |-> "APIIngestionError", cause |-> "OSError"]
    /\ entity_name = "characters"
    /\ records = FullCollection("characters")
    /\ files["episodes"] = {}
\* C15: run_ingestion starts with the characters and reaches the episodes only
\* when the characters call just before has returned; every request goes to the
\* resource being ingested and the session is open exactly while run_ingestion
\* runs.  While the characters are being ingested no episodes file changes, and
\* after an ingest_entity that raised the only step is to close the session and
\* let the error out: no request, no file deleted or written.
C15_CharactersThenEpisodes ==
    /\ []((driver = "run_ingestion") =>
            /\ (entity_name = "episodes" => last_ok["characters"] = clock - 1)
            /\ (session_open <=> pc # "idle")
            /\ \A i \in 1..Len(attempts) : attempts[i].url[1] = entity_name)
    /\ [][
          /\ (driver' = "run_ingestion" /\ runs' # runs) =>
                entity_name' = "characters"
          /\ (driver = "run_ingestion" /\ entity_name = "characters") =>
                files'["episodes"] = files["episodes"]
          /\ (driver = "run_ingestion" /\ pc = "raised") =>
                /\ pc' = "idle"
                /\ ~session_open'
                /\ raised' = raised
                /\ entity_name' = entity_name
                /\ attempts' = attempts
                /\ files' = files
       ]_vars

C15_Witness ==
    /\ driver = "run_ingestion"
    /\ pc = "idle"
    /\ ~session_open
    /\ entity_name = "characters"
    /\ raised = [type |-> "APIIngestionError", cause |-> "RetryError"]
    /\ last_ok["episodes"] > 0
    /\ \E f \in files["episodes"] : f.name = last_ok["episodes"] /\ f.complete
\* The files of the directory the latest cleanup_old_files found that match
\* its pattern, and those of them that are not among the N most recently
\* modified.
Matching == {f \in before : f.stem = entity_name}
NotAmongLatest(N) ==
    {f \in Matching : Cardinality({g \in Matching : g.mtime > f.mtime}) >= N}

\* C13: cleanup_old_files never raises: ingest_entity always gets from it to
\* the write.  When it is over, every file selected for deletion whose unlink
\* did not fail is gone, whichever unlinks failed, and nothing else is; a
\* saving call that returns after failed deletions has its snapshot on disk.
C13_DeletionFailureNotFatal ==
    /\ []((pc \in {"write", "cleaned"}) =>
            /\ undeleted \subseteq NotAmongLatest(keep_latest_arg)
            /\ deleted = NotAmongLatest(keep_latest_arg) \ undeleted
            /\ files[entity_name] = before \ deleted)
    /\ []((pc = "returned" /\ save_to_file) =>
            /\ SnapshotWritten
            /\ undeleted \subseteq files[entity_name])
    /\ [][pc = "cleanup" => (pc' = "write" /\ raised' = raised)]_vars

C13_Witness ==
    /\ pc = "returned"
    /\ save_to_file
    /\ Cardinality(undeleted) = 1
    /\ Cardinality(deleted) = 2
    /\ \E f \in deleted, g \in undeleted, h \in deleted :
          f.mtime > g.mtime /\ g.mtime > h.mtime
    /\ Len(records) = 2
    /\ SnapshotWritten

\* C14: after cleanup_old_files(directory, pattern, keep_latest=N) in which no
\* deletion failed, of the k files matching the pattern exactly the min(N, k)
\* most recently modified are left and all others are deleted; the files not
\* matching the pattern are all still there; with N = 0 no matching file is left.
C14_KeepsLatestN ==
    (pc \in {"write", "cleaned"} /\ undeleted = {}) =>
        LET dir == files[entity_name]
            kept == Matching \cap dir
        IN  /\ dir \subseteq before
            /\ (before \ Matching) \subseteq dir
            /\ Cardinality(kept) = Min(keep_latest_arg, Cardinality(Matching))
            /\ \A f \in kept, g \in Matching \ kept : f.mtime > g.mtime
            /\ deleted = Matching \ kept
            /\ keep_latest_arg = 0 => kept = {}

C14_Witness ==
    /\ pc = "cleaned"
    /\ keep_latest_arg = 2
    /\ Cardinality(Matching) = 3
    /\ Cardinality(before \ Matching) = 1
    /\ undeleted = {}
    /\ Cardinality(files[entity_name]) = 3
    /\ \E f \in deleted : \A g \in Matching : f.name >= g.name
\* The stages --step asks for, in main's order.
SelectedStages == IF step = "all" THEN Stages ELSE <<step>>

\* C16: the stages started are the first ones of those asked for, in main's
\* order (with a single named step, at most that one); every stage but the
\* latest started has completed, and the latest has not only if it raised,
\* after which main is past its stages for good.
C16_StagesInOrder ==
    LET n == Len(started)
    IN  /\ n <= Len(SelectedStages)
        /\ started = SubSeq(SelectedStages, 1, n)
        /\ Len(completed) \in {n - 1, n}
        /\ completed = SubSeq(started, 1, Len(completed))
        /\ Len(completed) < n => caught # "none"
        /\ caught # "none" =>
              /\ mpc \in {"finally", "returned"}
              /\ n > 0 => Len(completed) = n - 1
        /\ (mpc = "returned" /\ caught = "none") => completed = SelectedStages

C16_Witness ==
    /\ step = "all"
    /\ mpc = "returned"
    /\ caught = "SnowflakeError"
    /\ started = <<"setup-snowflake", "ingest", "load-raw">>
    /\ completed = <<"setup-snowflake", "ingest">>

\* What main returns: 0 exactly when every stage asked for completed, 1 after
\* an Exception (a failed SnowflakeDAL() and an APIIngestionError included),
\* 130 after a KeyboardInterrupt.
ExitStatus ==
    /\ Cardinality(status) = 1
    /\ (status = {EXIT_OK}) <=> (caught = "none" /\ completed = SelectedStages)
    /\ caught \in Exceptions \ {"KeyboardInterrupt"} => status = {EXIT_FAILURE}
    /\ caught = "KeyboardInterrupt" => status = {EXIT_INTERRUPTED}

\* C17 (as claimed): main's status is as above and a DAL that was created is
\* closed when main returns.
C17_StatusAndDalClosed ==
    mpc = "returned" =>
        /\ ExitStatus
        /\ dal = "created" => connection # "open"

\* C17 (amended): main's status is as above; when the DAL was created main has
\* called dal.close() before it returns, and the connection is left open only
\* if that close raised, which changes nothing in the status.
C17_StatusAndDalCloseCalled ==
    mpc = "returned" =>
        /\ ExitStatus
        /\ dal = "created" =>
              /\ close_call # "none"
              /\ (connection = "open") <=> (close_call = "raised")
        /\ dal = "None" => (connection = "none" /\ close_call = "none")

C17_Witness ==
    /\ mpc = "returned"
    /\ step = "all"
    /\ caught = "APIIngestionError"
    /\ status = {EXIT_FAILURE}
    /\ completed = <<"setup-snowflake">>
    /\ connection = "closed"
    /\ close_call = "returned"
\* C18: the statements handed to the cursor are the first ones of the script's
\* statements, in their order.  When the execute of statement i raised, the
\* i-1 before it were executed, it is the last one handed over, the error is
\* let out and the cursor is closed; when none raised, all were executed and
\* the cursor is closed when execute_script returns.
C18_InOrderFirstFailure ==
    /\ executed = SubSeq(statements, 1, Len(executed))
    /\ failed_at # 0 =>
          /\ spc = "raised"
          /\ Len(executed) = failed_at
          /\ script_error # "none"
          /\ cursor = "closed"
    /\ spc = "returned" =>
          /\ executed = statements
          /\ failed_at = 0
          /\ script_error = "none"
          /\ cursor = "closed"
    /\ (spc = "raised" /\ failed_at = 0) => (executed = <<>> /\ cursor = "none")

C18_Witness ==
    /\ spc = "raised"
    /\ Len(statements) = 3
    /\ failed_at = 2
    /\ executed = SubSeq(statements, 1, 2)
    /\ script_error = "SnowflakeError"
    /\ cursor = "closed"

\* The statements of a script as the claim describes them: the comment lines
\* are taken out first, what is left is split at the separators outside quoted
\* literals, and the non-empty pieces, cleaned as execute_script cleans them,
\* are the statements.
not_comment_line(line) == ~(strip(line) # <<>> /\ Head(strip(line)) = "--")

without_comment_lines(script) ==
    join(SelectSeq(split(script, "\n"), not_comment_line), "\n")

RECURSIVE top_level_split(_, _, _)
top_level_split(str, in_quote, piece) ==
    IF str = <<>> THEN <<piece>>
    ELSE IF Head(str) = ";" /\ ~in_quote
         THEN <<piece>> \o top_level_split(Tail(str), FALSE, <<>>)
         ELSE top_level_split(Tail(str),
                              IF Head(str) = "'" THEN ~in_quote ELSE in_quote,
                              Append(piece, Head(str)))

ClaimedStatements(script) ==
    SelectSeq(cleaned_all(
                  top_level_split(without_comment_lines(script), FALSE, <<>>)),
              nonempty)

NoQuote(script) == \A i \in 1..Len(script) : script[i] # "'"

\* C19 (as claimed), for scripts without quoted literals: the statements
\* execute_script has sent when it returns are the non-empty pieces between the separators of
\* the script without its comment lines, so that nothing of a line that
\* starts with '--' is part of a statement.
C19_StatementsAsClaimed ==
    (spc = "returned" /\ NoQuote(sql_script)) =>
        executed = ClaimedStatements(sql_script)
RECURSIVE Sum(_)
Sum(counts) == IF counts = <<>> THEN 0 ELSE Head(counts) + Sum(Tail(counts))

IsPass(check) == check[Len(check)] = "PASS"
IsFail(check) == check[Len(check)] = "FAIL"
IsWarning(check) == check[Len(check)] = "WARNING"

\* C20 (as claimed): in the dictionary analyze_results returns, total is the
\* number of rows and the sum of the three lists' lengths, each list holds the
\* rows of its status in input order (so no row is in two of them), and
\* success_rate is 100 * |passed| / total, 0 for an empty list.
C20_EveryRowClassified ==
    qpc = "returned" =>
        /\ analysis.total = Len(checks)
        /\ analysis.total = Sum(<<Len(analysis.passed), Len(analysis.failed),
                                  Len(analysis.warnings)>>)
        /\ analysis.passed = SelectSeq(checks, IsPass)
        /\ analysis.failed = SelectSeq(checks, IsFail)
        /\ analysis.warnings = SelectSeq(checks, IsWarning)
        /\ analysis.success_rate.num * analysis.total =
              100 * Len(analysis.passed) * analysis.success_rate.den
        /\ checks = <<>> => analysis.success_rate.num = 0

\* The URLs the mock session was asked for, in order, and whether it answered
\* all of them with a page.
Urls(log) == [i \in 1..Len(log) |-> log[i].url]
NoFailure(log) == \A i \in 1..Len(log) : log[i].ok

\* C21: while fetch_all_pages is in its loop there is a next URL, the one the
\* last page named, and one courtesy sleep was taken per page fetched so far.
\* It returns only from a page without next, so never on a looping chain; on
\* a chain of P pages it has then slept P - 1 times, and when no GET failed
\* the GETs are exactly the P pages in chain order.  Short of that the only
\* way out is a GET that failed, the last one made.
C21_TerminatesAtChainEnd ==
    LET P == server[entity_name].len
    IN  /\ pc = "fetch" =>
              /\ current_url # NoURL
              /\ naps = Len(path)
              /\ page_number = Len(path) + 1
              /\ path # <<>> => current_url = next_link(Last(path))
        /\ FetchReturned =>
              /\ ~server[entity_name].loops
              /\ next_link(Last(path)) = NoURL
              /\ Len(path) = P
              /\ naps = P - 1
              /\ NoFailure(calls) =>
                    (Urls(calls) = Chain(entity_name) /\ Len(calls) = P)
        /\ server[entity_name].loops => pc \notin {"summary", "returned"}
        /\ (pc = "raised" /\ ~FetchReturned) =>
              /\ calls # <<>>
              /\ ~Last(calls).ok
              /\ Last(calls).url = current_url

C21_Witness ==
    /\ pc = "returned"
    /\ server[entity_name].len = 2
    /\ NoFailure(calls)
    /\ Urls(calls) = <<ENDPOINT(entity_name), <<entity_name, 2>>>>
    /\ naps = 1
    /\ records = <<11, 12, 21>>

\* On a looping chain the loop asks again for a URL it has already fetched.
C21_VisitedUrlRequested ==
    /\ server[entity_name].loops
    /\ pc = "fetch"
    /\ path # <<>>
    /\ Len(calls) > Len(path)
    /\ Last(calls).url = path[1]
    /\ page_number > server[entity_name].len

\* A directory holds a snapshot: a file whose write was completed.
HasSnapshot(dir) == \E f \in dir : f.complete

\* C22: ingest_entity touches no file while it is fetching.  A directory that
\* held a snapshot comes to hold none only by the cleanup step of a saving
\* call whose pagination has returned, and the write comes after it: at the
\* write the directory is what the cleanup left and the new file is not there
\* yet, and a write that completes puts the snapshot back.  So a call that
\* found a snapshot and has none on disk is either between the cleanup and the
\* write or has failed in the write.
C22_CleanupThenWrite ==
    /\ [](pc = "write" =>
            /\ FetchReturned
            /\ save_to_file
            /\ files[entity_name] = before \ deleted
            /\ ~SnapshotWritten)
    /\ []((HasSnapshot(before) /\ ~HasSnapshot(files[entity_name])) =>
            \/ pc = "write"
            \/ /\ pc \in {"raised", "idle"}
               /\ raised = [type |-> "APIIngestionError", cause |-> "OSError"])
    /\ [][
          /\ pc = "fetch" => files' = files
          /\ (\E e \in Entities : HasSnapshot(files[e]) /\ ~HasSnapshot(files'[e])) =>
                /\ pc = "cleanup"
                /\ pc' = "write"
                /\ FetchReturned
                /\ save_to_file
          /\ (pc = "write" /\ pc' = "summary") => SnapshotWritten'
       ]_vars

C22_Witness ==
    /\ pc = "raised"
    /\ raised.cause = "OSError"
    /\ prev_ok > 0
    /\ \E f \in before : f.complete /\ f.name = prev_ok
    /\ files[entity_name] = {}

\* Some row of the list has the status FAIL.
HasFailRow(rows) == \E i \in 1..Len(rows) : IsFail(rows[i])

\* C23 (as claimed): when no query failed, run_quality_checks_step raises if
\* and only if some check row has the status FAIL, and the exception makes
\* main return 1; with rows that are all PASS or WARNING it returns.
C23_FailsIffFailRow ==
    (stpc \in {"returned", "raised"} /\ step_error # "SnowflakeError") =>
        /\ (stpc = "raised") <=> HasFailRow(flatten(results_by_query))
        /\ stpc = "raised" => except_clause(step_error) = EXIT_FAILURE

\* What does hold: once the rows are there, the failed list decides.
FailedListDecides ==
    (stpc \in {"returned", "raised"} /\ qpc = "returned") =>
        /\ (stpc = "raised") <=> HasFailRow(checks)
        /\ stpc = "raised" => step_error = "Exception"

\* C25 (as claimed): with the SnowflakeDAL and queries that succeed,
\* run_quality_checks gets the result sets from the DAL, flattens them in
\* statement order, classifies the rows and returns the dictionary: no
\* exception other than the one for failed checks leaves the stage.
C25_ChecksReachClassification ==
    (dal_kind = "SnowflakeDAL" /\ stpc \in {"returned", "raised"}) =>
        /\ step_error \in {"none", "Exception"}
        /\ qpc = "returned"
        /\ checks = flatten(results_by_query)
        /\ analysis.total = Len(checks)

\* C24: a load_raw_entity call for an entity whose directory has no matching
\* file raises FileNotFoundError with nothing uploaded or copied.  Otherwise it
\* uploads exactly one file: a matching file of the directory than which none
\* was modified later, whole, and the one the latest saving run that returned
\* wrote; it names no other file to the copy, and has copied it when it
\* returns.
C24_LoadsLatestSnapshot ==
    [][(<<lpc, load_entity, uploaded, copied, load_error>>' #
           <<lpc, load_entity, uploaded, copied, load_error>>) =>
        LET dir == {f \in files[load_entity'] : f.stem = load_entity'}
        IN  IF dir = {}
            THEN /\ lpc' = "raised"
                 /\ load_error' = "FileNotFoundError"
                 /\ uploaded' = <<>>
                 /\ copied' = <<>>
            ELSE /\ Len(uploaded') = 1
                 /\ uploaded'[1] \in dir
                 /\ \A g \in dir : g.mtime <= uploaded'[1].mtime
                 /\ uploaded'[1].complete
                 /\ uploaded'[1].name = last_saved[load_entity']
                 /\ copied' \in {<<>>, uploaded'}
                 /\ lpc' = "returned" => copied' = uploaded'
                 /\ load_error' # "FileNotFoundError"
      ]_vars

C24_Witness ==
    /\ lpc = "returned"
    /\ Cardinality(files[load_entity]) = 2
    /\ Len(uploaded) = 1
    /\ uploaded[1] \in files[load_entity]
    /\ uploaded[1].name = last_saved[load_entity]
    /\ \E g \in files[load_entity] : g.mtime < uploaded[1].mtime
    /\ copied = uploaded

\* A load that found no file, after a run whose fetch failed.
C24_NothingToLoad ==
    /\ lpc = "raised"
    /\ load_error = "FileNotFoundError"
    /\ load_entity = entity_name
    /\ pc = "raised"
    /\ uploaded = <<>>
    /\ copied = <<>>

\* The causes of a pagination that failed.
FetchFailures == {"4xx", "RetryError", "JSONDecodeError", "ConnectionError", "Timeout"}

\* C26: no step of a fetch, and no step of a call made with save_to_file =
\* False, changes any file.  A call whose pagination failed has run no
\* clean-up, deleted nothing and written no file, and the snapshot of the
\* entity's latest saving call, if that call returned, is still on disk and is
\* the newest file there; a call that does not save has run no clean-up and
\* written no file either.
C26_FailedFetchTouchesNoFile ==
    /\ []((pc \in {"raised", "idle"} /\ raised.cause \in FetchFailures) =>
            /\ before = {}
            /\ deleted = {}
            /\ undeleted = {}
            /\ \A f \in files[entity_name] : f.name # clock
            /\ prev_ok > 0 =>
                  \E f \in files[entity_name] :
                      /\ f.name = prev_ok
                      /\ f.complete
                      /\ \A g \in files[entity_name] : g.mtime <= f.mtime)
    /\ [](~save_to_file =>
            /\ before = {}
            /\ deleted = {}
            /\ pc \notin {"cleanup", "write"}
            /\ \A f \in files[entity_name] : f.name # clock)
    /\ [][(pc = "fetch" \/ ~save_to_file') => files' = files]_vars

C26_Witness ==
    /\ pc = "raised"
    /\ raised.cause = "RetryError"
    /\ save_to_file
    /\ page_number = 2
    /\ prev_ok > 0
    /\ Cardinality(files[entity_name]) = 1
    /\ \E f \in files[entity_name] : f.name = prev_ok /\ f.complete

\* A call that does not save has returned and the earlier snapshot is there.
C26_NotSavedWitness ==
    /\ pc = "returned"
    /\ ~save_to_file
    /\ prev_ok > 0
    /\ \E f \in files[entity_name] : f.name = prev_ok /\ f.complete

\* The number of failed GETs at the end of the log: those of the page request
\* in progress (or of the one that failed).
RECURSIVE Trailing(_)
Trailing(log) ==
    IF log = <<>> \/ Last(log).ok THEN 0
    ELSE 1 + Trailing(SubSeq(log, 1, Len(log) - 1))

\* C27: the attempt counter of a page request counts the failed GETs of that
\* page alone, whatever the pages before took, and its delays are the first
\* ones of the backoff series; a page is given up only after API_MAX_RETRIES
\* failed GETs of its own (or one fatal answer); every page takes at most
\* API_MAX_RETRIES GETs, so a run over P pages takes at most
\* P * API_MAX_RETRIES.
C27_RetryBudgetPerPage ==
    /\ max_retries = API_MAX_RETRIES \/ pc = "idle"
    /\ pc = "fetch" =>
          /\ attempt_number = Trailing(calls) + 1
          /\ attempt_number <= API_MAX_RETRIES
          /\ attempt_number > 1 => Len(sleeps) = Trailing(calls)
    /\ Len(calls) - Trailing(calls) <= Len(path) * API_MAX_RETRIES
    /\ Trailing(calls) <= API_MAX_RETRIES
    /\ \A k \in 1..Len(sleeps) : sleeps[k] = ClaimedDelay(API_RETRY_BACKOFF, k)
    /\ (pc = "raised" /\ raised.cause = "RetryError") =>
          Trailing(calls) = API_MAX_RETRIES
    /\ Len(calls) <= page_number * API_MAX_RETRIES
    /\ ~server[entity_name].loops =>
          Len(calls) <= server[entity_name].len * API_MAX_RETRIES

C27_Witness ==
    /\ FetchReturned
    /\ server[entity_name].len = 2
    /\ Len(calls) = 2 * API_MAX_RETRIES
    /\ calls[API_MAX_RETRIES].ok
    /\ Trailing(SubSeq(calls, 1, API_MAX_RETRIES - 1)) = API_MAX_RETRIES - 1
    /\ Len(attempts) = API_MAX_RETRIES
    /\ sleeps = <<2, 4, 8, 16>>

====
